---- MODULE Spec2Model ----
(***************************************************************************)
(* A model of the two converters of qsv:                                   *)
(*   src/src/cmd/json.rs     `qsv json`     JSON  -> CSV                   *)
(*   src/src/cmd/tojsonl.rs  `qsv tojsonl`  CSV   -> JSONL                 *)
(* The JSON -> CSV run is modelled per invocation p (the temporary file    *)
(* it writes lives in the shared temp directory); the CSV -> JSONL run is  *)
(* a single invocation.                                                    *)
(***************************************************************************)
EXTENDS Integers, Sequences, FiniteSets, TLC

(***************************************************************************)
(* Bounds of the model.                                                    *)
(***************************************************************************)
\* longest JSON array given to `qsv json`
MaxRecs == 2
\* widest CSV header / row given to `qsv tojsonl`
MaxCols == 2
\* number of CSV data rows given to `qsv tojsonl`
MaxRows == 2

\* invocations of `qsv json`; Spec runs invocation 1 alone
Procs == {1, 2}

(***************************************************************************)
(* Generic helpers.                                                        *)
(***************************************************************************)
Range(s) == {s[i] : i \in 1..Len(s)}

Injective(s) == \A i, j \in 1..Len(s) : s[i] = s[j] => i = j

SeqsUpTo(S, n) == UNION {[1..m -> S] : m \in 0..n}

\* every ordering of the finite set S
Perms(S) == {s \in [1..Cardinality(S) -> S] : Injective(s)}

\* the i of the first s[i] = x, 0 when there is none
RECURSIVE IndexFrom(_, _, _)
IndexFrom(s, x, i) ==
    IF i > Len(s) THEN 0
    ELSE IF s[i] = x THEN i
    ELSE IndexFrom(s, x, i + 1)

IndexOf(s, x) == IndexFrom(s, x, 1)

(***************************************************************************)
(* serde_json::Value, as far as the converter looks at it.  An object is   *)
(* an ordered sequence of entries with distinct keys.                      *)
(***************************************************************************)
JNull == [t |-> "null"]
JStr(s) == [t |-> "str", s |-> s]
JNum(n) == [t |-> "num", n |-> n]
JArr(s) == [t |-> "arr", v |-> s]
JObj(es) == [t |-> "obj", v |-> es]
\* what serde_json::from_slice / from_reader could not parse
Malformed == [t |-> "malformed"]

is_null(v) == v.t = "null"
is_array(v) == v.t = "arr"
is_object(v) == v.t = "obj"

\* Map::keys(): the keys of an object in the order the map holds them
keys(o) == [i \in 1..Len(o.v) |-> o.v[i].k]

\* Map::get(key), JNull standing for None
get(o, key) ==
    LET i == IndexOf(keys(o), key)
    IN  IF i = 0 THEN JNull ELSE o.v[i].v

(***************************************************************************)
(* The JSON documents the model feeds to `qsv json`.                       *)
(***************************************************************************)
Keys == {"a", "b"}
ScalarVals == {JNull, JStr("x")}

KeyOrders == {ks \in SeqsUpTo(Keys, Cardinality(Keys)) : Injective(ks)}

FlatObjs ==
    {JObj([i \in 1..Len(ks) |-> [k |-> ks[i], v |-> vs[i]]]) :
        <<ks, vs>> \in {kv \in KeyOrders \X SeqsUpTo(ScalarVals, Cardinality(Keys)) :
                            Len(kv[1]) = Len(kv[2])}}

\* array elements: flat objects, a number, a nested array
Elems == FlatObjs \cup {JNum(1), JArr(<<>>)}
Arrays == {JArr(s) : s \in SeqsUpTo(Elems, MaxRecs)}
\* {"data": [...]}, the nested document of the USAGE text
DataObjs == {JObj(<<[k |-> "data", v |-> a]>>) : a \in Arrays}

\* documents given without a filter: flat ones (USAGE: "expected to be ... non-nested")
PlainInputs == {JNull, JNum(1), Malformed} \cup FlatObjs \cup Arrays
FilterInputs == PlainInputs \cup DataObjs

\* values of --jaq; "none" is the absent option, ".[" does not parse
Filters == {"none", ".data", ".data[]", ".[]|{a:.a}", ".["}

(***************************************************************************)
(* The jaq evaluator (external crate), for the filters above: the sequence *)
(* of results the filter yields, each Ok(value) or Err.                    *)
(***************************************************************************)
Ok(v) == [ok |-> TRUE, v |-> v]
Err == [ok |-> FALSE]

JaqParses(f) == f # ".["

\* .[] : the elements of an array, the values of an object
JaqIterate(v) ==
    IF is_array(v) THEN [i \in 1..Len(v.v) |-> Ok(v.v[i])]
    ELSE IF is_object(v) THEN [i \in 1..Len(v.v) |-> Ok(v.v[i].v)]
    ELSE <<Err>>

\* .key : defined on objects and on null
JaqIndex(v, key) ==
    IF is_object(v) THEN Ok(get(v, key))
    ELSE IF is_null(v) THEN Ok(JNull)
    ELSE Err

JaqRun(f, v) ==
    CASE f = ".data" -> <<JaqIndex(v, "data")>>
      [] f = ".data[]" ->
            LET d == JaqIndex(v, "data")
            IN  IF d.ok THEN JaqIterate(d.v) ELSE <<Err>>
      [] f = ".[]|{a:.a}" ->
            LET es == JaqIterate(v)
            IN  [i \in 1..Len(es) |->
                    IF es[i].ok /\ JaqIndex(es[i].v, "a").ok
                    THEN Ok(JObj(<<[k |-> "a", v |-> JaqIndex(es[i].v, "a").v]>>))
                    ELSE Err]
      [] OTHER -> <<>>

(***************************************************************************)
(* State of `qsv json`, per invocation p.                                  *)
(***************************************************************************)
VARIABLES
    pc,            \* where run() of json.rs stands
    input,         \* the document read from <input> or stdin
    flag_jaq,      \* args.flag_jaq
    value,         \* `value`
    headers,       \* `headers`: the first dict's keys
    byteheaders,   \* header row read back from the intermediate CSV
    sel,           \* the column selection
    rdpos,         \* rows intermediate_csv_rdr has consumed
    out,           \* rows written to the final CSV
    err,           \* the CliError the run ended with, "" for none
    created,       \* whether this invocation created the intermediate CSV
    written,       \* the rows this invocation's writer wrote to the intermediate CSV
    readback,      \* the rows this invocation's reader has read from it so far
    intermediate_csv   \* the file temp_dir()/intermediate.csv

jvars == <<pc, input, flag_jaq, value, headers, byteheaders, sel, rdpos, out,
           err, created, written, readback, intermediate_csv>>

\* State of `qsv tojsonl`.
VARIABLES
    tpc,             \* where run() of tojsonl.rs stands
    csv_headers,     \* `headers`: the header row of the input
    n_props,         \* number of entries of properties_map
    field_def,       \* `field_def` of the current turn of the type loop
    field_type_vec,  \* `field_type_vec`
    records,         \* the data rows read so far, as read
    wtr,             \* the lines written so far
    terr             \* the CliError the run ended with, "" for none

tvars == <<tpc, csv_headers, n_props, field_def, field_type_vec,
           records, wtr, terr>>

NoFile == [exists |-> FALSE, rows |-> <<>>]

\* `return fail_clierror!(msg)` / `?` on an Err
Fail(p, msg) ==
    /\ pc' = [pc EXCEPT ![p] = "failed"]
    /\ err' = [err EXCEPT ![p] = msg]

\* filter_map(Result::ok) followed by Value::from_iter
CollectOk(results) ==
    LET oks == SelectSeq(results, LAMBDA r : r.ok)
    IN  JArr([i \in 1..Len(oks) |-> oks[i].v])

\* faulty variant of Unwrap: the collected array is kept as it is
UnwrapNever(jaq_value) == jaq_value

\* the one-level unwrap of the collected filter output
Unwrap(jaq_value) ==
    IF is_array(jaq_value) /\ Len(jaq_value.v) > 0 /\ is_array(jaq_value.v[1])
    THEN jaq_value.v[1]
    ELSE jaq_value

\* faulty variant of ShapeError: an empty array is reported as missing data
ShapeErrorEmptyIsNoData(v) ==
    IF is_null(v) \/ (is_array(v) /\ Len(v.v) = 0) THEN "No JSON data found."
    ELSE IF is_array(v) /\ ~is_object(v.v[1]) THEN "Expected an array of objects in JSON"
    ELSE IF ~is_array(v) /\ ~is_object(v) THEN "Expected a JSON object"
    ELSE IF Len((IF is_array(v) THEN v.v[1] ELSE v).v) = 0
    THEN "Expected a non-empty JSON object"
    ELSE ""

\* the error of the second null check and of the first_dict checks, "" for none
ShapeError(v) ==
    IF is_null(v) THEN "No JSON data found."
    ELSE IF is_array(v) /\ (Len(v.v) = 0 \/ ~is_object(v.v[1]))
    THEN "Expected an array of objects in JSON"
    ELSE IF ~is_array(v) /\ ~is_object(v) THEN "Expected a JSON object"
    ELSE IF Len((IF is_array(v) THEN v.v[1] ELSE v).v) = 0
    THEN "Expected a non-empty JSON object"
    ELSE ""

\* `first_dict`
FirstDict(v) == IF is_array(v) THEN v.v[1] ELSE v

\* `values`: the record set handed to Json2Csv
Values(v) == IF is_array(v) THEN v.v ELSE <<v>>

\* the text the flattener writes for a scalar
CellText(v) ==
    CASE v.t = "null" -> ""
      [] v.t = "str" -> v.s
      [] v.t = "num" -> ToString(v.n)
      [] OTHER -> "?"

\* the cell of record r under column key: blank when r lacks the key
CellOf(r, key) == IF key \in Range(keys(r)) THEN CellText(get(r, key)) ELSE ""

AllKeys(vals) == UNION {Range(keys(vals[i])) : i \in 1..Len(vals)}

\* SelectColumns::parse(names).selection(byteheaders): by-name selection
Selection(names, hdr) == [i \in 1..Len(names) |-> IndexOf(hdr, names[i])]

\* faulty variant of SelectedFields: the record is written in its own order
SelectedFieldsNoPerm(s, record) == record

\* sel.iter().map(|&i| &record[i])
SelectedFields(s, record) == [i \in 1..Len(s) |-> record[s[i]]]

(***************************************************************************)
(* Steps of run() in json.rs.                                              *)
(***************************************************************************)
\* get_value_from_path / get_value_from_stdin and the first null check
Load(p) ==
    /\ UNCHANGED <<tvars, written, readback>>
    /\ pc[p] = "start"
    /\ IF input[p] = Malformed
       THEN Fail(p, "Failed to parse JSON") /\ UNCHANGED value
       ELSE IF is_null(input[p])
       THEN Fail(p, "No JSON data found.") /\ UNCHANGED value
       ELSE /\ value' = [value EXCEPT ![p] = input[p]]
            /\ pc' = [pc EXCEPT ![p] = IF flag_jaq[p] = "none" THEN "shape" ELSE "filter"]
            /\ UNCHANGED err
    /\ UNCHANGED <<input, flag_jaq, headers, byteheaders, sel, rdpos, out,
                   created, intermediate_csv>>

\* the --jaq block
Filter(p) ==
    /\ UNCHANGED <<tvars, written, readback>>
    /\ pc[p] = "filter"
    /\ IF ~JaqParses(flag_jaq[p])
       THEN \* f.unwrap() on None
            /\ pc' = [pc EXCEPT ![p] = "panicked"]
            /\ UNCHANGED value
       ELSE /\ value' = [value EXCEPT ![p] = Unwrap(CollectOk(JaqRun(flag_jaq[p], value[p])))]
            /\ pc' = [pc EXCEPT ![p] = "shape"]
    /\ UNCHANGED <<input, flag_jaq, headers, byteheaders, sel, rdpos, out, err,
                   created, intermediate_csv>>

\* second null check, first_dict, headers
Validate(p) ==
    /\ UNCHANGED <<tvars, written, readback>>
    /\ pc[p] = "shape"
    /\ IF ShapeError(value[p]) # ""
       THEN Fail(p, ShapeError(value[p])) /\ UNCHANGED headers
       ELSE /\ headers' = [headers EXCEPT ![p] = keys(FirstDict(value[p]))]
            /\ pc' = [pc EXCEPT ![p] = "create"]
            /\ UNCHANGED err
    /\ UNCHANGED <<input, flag_jaq, value, byteheaders, sel, rdpos, out,
                   created, intermediate_csv>>

\* std::fs::File::create(&intermediate_csv)
CreateTmp(p) ==
    /\ UNCHANGED <<tvars, written, readback>>
    /\ pc[p] = "create"
    /\ intermediate_csv' = [exists |-> TRUE, rows |-> <<>>]
    /\ created' = [created EXCEPT ![p] = TRUE]
    /\ pc' = [pc EXCEPT ![p] = "convert"]
    /\ UNCHANGED <<input, flag_jaq, value, headers, byteheaders, sel, rdpos, out, err>>

\* File::create fails and `?` returns the error
CreateTmpFails(p) ==
    /\ UNCHANGED <<tvars, written, readback>>
    /\ pc[p] = "create"
    /\ Fail(p, "io error")
    /\ UNCHANGED <<input, flag_jaq, value, headers, byteheaders, sel, rdpos, out,
                   created, intermediate_csv>>

\* a faulty write_record: the record is put in front of what was written
write_record_front(w, record) == <<record>> \o w

\* csv::Writer::write_record: the record is added after what was written
write_record(w, record) == Append(w, record)

\* the CSV Json2Csv writes for the records vals with the columns in `order`
FlattenedRows(vals, order) ==
    <<order>> \o
    [r \in 1..Len(vals) |-> [c \in 1..Len(order) |-> CellOf(vals[r], order[c])]]

\* the file after a writer whose handle stands at its start has written rows:
\* what the file held beyond them stays (the file is truncated by File::create
\* only, so it is empty here unless another invocation wrote since)
WriteFromStart(existing, rows) ==
    rows \o SubSeq(existing, Len(rows) + 1, Len(existing))

\* Json2Csv::new(flattener).convert_from_array(values, writer), writer dropped
Convert(p) ==
    /\ UNCHANGED <<tvars, readback>>
    /\ pc[p] = "convert"
    /\ LET vals == Values(value[p]) IN
       IF \E i \in 1..Len(vals) : ~is_object(vals[i])
       THEN Fail(p, "Flattening error") /\ UNCHANGED <<intermediate_csv, written>>
       ELSE \E order \in Perms(AllKeys(vals)) :
                /\ written' = [written EXCEPT ![p] = FlattenedRows(vals, order)]
                /\ intermediate_csv' =
                       [exists |-> TRUE,
                        rows |-> WriteFromStart(intermediate_csv.rows,
                                                FlattenedRows(vals, order))]
                /\ pc' = [pc EXCEPT ![p] = "open"]
                /\ UNCHANGED err
    /\ UNCHANGED <<input, flag_jaq, value, headers, byteheaders, sel, rdpos, out, created>>

\* sel_rconfig.reader(), byte_headers(), selection(&byteheaders)
OpenReader(p) ==
    /\ UNCHANGED <<tvars, written>>
    /\ pc[p] = "open"
    /\ IF ~intermediate_csv.exists
       THEN Fail(p, "io error") /\ UNCHANGED <<byteheaders, sel, rdpos, readback>>
       ELSE LET hdr == IF Len(intermediate_csv.rows) > 0
                       THEN intermediate_csv.rows[1] ELSE <<>>
                s == Selection(headers[p], hdr)
            IN  IF \E i \in 1..Len(s) : s[i] = 0
                THEN Fail(p, "Selector name not found")
                     /\ UNCHANGED <<byteheaders, sel, rdpos, readback>>
                ELSE /\ byteheaders' = [byteheaders EXCEPT ![p] = hdr]
                     /\ readback' = [readback EXCEPT ![p] = <<hdr>>]
                     /\ sel' = [sel EXCEPT ![p] = s]
                     /\ rdpos' = [rdpos EXCEPT ![p] = 1]
                     /\ pc' = [pc EXCEPT ![p] = "header"]
                     /\ UNCHANGED err
    /\ UNCHANGED <<input, flag_jaq, value, headers, out, created, intermediate_csv>>

\* final_csv_wtr.write_record(sel.iter().map(|&i| &byteheaders[i]))
WriteHeader(p) ==
    /\ UNCHANGED <<tvars, written, readback>>
    /\ pc[p] = "header"
    /\ out' = [out EXCEPT ![p] = write_record(@, SelectedFields(sel[p], byteheaders[p]))]
    /\ pc' = [pc EXCEPT ![p] = "copy"]
    /\ UNCHANGED <<input, flag_jaq, value, headers, byteheaders, sel, rdpos, err,
                   created, intermediate_csv>>

\* one turn of the while loop over intermediate_csv_rdr
CopyRecord(p) ==
    /\ UNCHANGED <<tvars, written>>
    /\ pc[p] = "copy"
    /\ rdpos[p] < Len(intermediate_csv.rows)
    /\ LET record == intermediate_csv.rows[rdpos[p] + 1] IN
       IF \E i \in 1..Len(sel[p]) : sel[p][i] > Len(record)
       THEN \* record[i] out of bounds
            pc' = [pc EXCEPT ![p] = "panicked"] /\ UNCHANGED <<out, rdpos, readback>>
       ELSE /\ out' = [out EXCEPT ![p] = write_record(@, SelectedFields(sel[p], record))]
            /\ readback' = [readback EXCEPT ![p] = Append(@, record)]
            /\ rdpos' = [rdpos EXCEPT ![p] = @ + 1]
            /\ UNCHANGED pc
    /\ UNCHANGED <<input, flag_jaq, value, headers, byteheaders, sel, err,
                   created, intermediate_csv>>

\* read_byte_record returns false; final_csv_wtr.flush()
Finish(p) ==
    /\ UNCHANGED <<tvars, written, readback>>
    /\ pc[p] = "copy"
    /\ rdpos[p] >= Len(intermediate_csv.rows)
    /\ pc' = [pc EXCEPT ![p] = "done"]
    /\ UNCHANGED <<input, flag_jaq, value, headers, byteheaders, sel, rdpos, out,
                   err, created, intermediate_csv>>

JsonInputs ==
    {<<d, f>> \in FilterInputs \X Filters : f = "none" => d \in PlainInputs}

(***************************************************************************)
(* `qsv tojsonl`.  Text is a sequence of characters, each a one-character  *)
(* string; "U+00E9" stands for a character outside ASCII.                  *)
(***************************************************************************)
NonAscii == "U+00E9"

Upper == <<"A", "B", "C", "D", "E", "F", "G", "H", "I", "J", "K", "L", "M",
           "N", "O", "P", "Q", "R", "S", "T", "U", "V", "W", "X", "Y", "Z">>
Lower == <<"a", "b", "c", "d", "e", "f", "g", "h", "i", "j", "k", "l", "m",
           "n", "o", "p", "q", "r", "s", "t", "u", "v", "w", "x", "y", "z">>

\* char::to_ascii_lowercase
to_ascii_lowercase(c) ==
    IF IndexOf(Upper, c) > 0 THEN Lower[IndexOf(Upper, c)] ELSE c

\* char::is_whitespace, on the characters of the model
is_whitespace(c) == c \in {" ", "\t", "\n", "\r"}

RECURSIVE trim_start(_)
trim_start(s) ==
    IF s # <<>> /\ is_whitespace(Head(s)) THEN trim_start(Tail(s)) ELSE s

RECURSIVE trim_end(_)
trim_end(s) ==
    IF s # <<>> /\ is_whitespace(s[Len(s)])
    THEN trim_end(SubSeq(s, 1, Len(s) - 1))
    ELSE s

\* StringRecord::trim, on one field
trim(s) == trim_end(trim_start(s))

\* faulty variant of first_lower_char: the character is not lowercased
first_lower_char_NoLower(field_str) ==
    LET t == trim_start(field_str)
    IN  IF t = <<>> THEN "_" ELSE t[1]

first_lower_char(field_str) ==
    LET t == trim_start(field_str)
    IN  to_ascii_lowercase(IF t = <<>> THEN "_" ELSE t[1])

\* char::escape_default
escape_char(c) ==
    CASE c = "\t" -> <<"\\", "t">>
      [] c = "\r" -> <<"\\", "r">>
      [] c = "\n" -> <<"\\", "n">>
      [] c = "'" -> <<"\\", "'">>
      [] c = "\"" -> <<"\\", "\"">>
      [] c = "\\" -> <<"\\", "\\">>
      [] c = NonAscii -> <<"\\", "u", "{", "e", "9", "}">>
      [] OTHER -> <<c>>

\* str::escape_default
RECURSIVE escape_default(_)
escape_default(s) ==
    IF s = <<>> THEN <<>> ELSE escape_char(Head(s)) \o escape_default(Tail(s))

NullText == <<"n", "u", "l", "l">>
TrueText == <<"t", "r", "u", "e">>
FalseText == <<"f", "a", "l", "s", "e">>

\* enum JsonlType and its case-insensitive FromStr, unwrap_or(String)
JsonlTypes == {"Boolean", "String", "Number", "Integer", "Null"}

JsonlTypeFromStr(str) ==
    CASE str = "boolean" -> "Boolean"
      [] str = "string" -> "String"
      [] str = "number" -> "Number"
      [] str = "integer" -> "Integer"
      [] str = "null" -> "Null"
      [] OTHER -> "String"

(***************************************************************************)
(* What the profiler (infer_schema_from_stats) hands over for one column:  *)
(* the first name of its "type" array and its optional "enum" array.       *)
(***************************************************************************)
PrelimTypes == {"string", "integer", "number", "null", "array"}

JFloat == [t |-> "float"]
Absent == [t |-> "absent"]

DomVals ==
    {JNull, JFloat, JNum(0), JNum(1)} \cup
    {JStr(s) : s \in {<<"T">>, <<"f">>, <<" ", "y">>, <<"N">>, <<"r">>}}

\* enum arrays: every pair of DomVals, and some of size one and three
Domains ==
    {JArr(s) : s \in [1..2 -> DomVals]} \cup
    {JArr(<<JNum(1)>>), JArr(<<JStr(<<"T">>), JStr(<<"f">>), JNull>>),
     JArr(<<JStr(<<>>), JStr(<<"T">>)>>), JArr(<<JNum(2), JNum(1)>>)}

\* the profiler gives enum constraints for string and integer columns only
FieldDefs ==
    [type : {"string", "integer"}, enum : Domains] \cup
    [type : PrelimTypes, enum : {Absent}]

\* val1 / val2: the indicator character of one domain value
IndicatorChar(v) ==
    IF is_null(v) THEN "_"
    ELSE IF v.t = "str" THEN first_lower_char(v.s)
    ELSE IF v.t = "num" /\ v.n >= 0
    THEN CASE v.n = 1 -> "1" [] v.n = 0 -> "0" [] OTHER -> "*"
    ELSE "*"

\* faulty variant of IsBooleanPair: any truthy value with any falsy one
IsBooleanPairLoose(val1, val2) ==
    \/ val1 \in {"t", "1", "y"} /\ val2 \in {"f", "0", "n", "_"}
    \/ val1 \in {"f", "0", "n", "_"} /\ val2 \in {"t", "1", "y"}

\* the `if let` pattern over (val1, val2)
IsBooleanPair(val1, val2) ==
    \/ val1 = "t" /\ val2 \in {"f", "_"}
    \/ val1 \in {"f", "_"} /\ val2 = "t"
    \/ val1 = "1" /\ val2 \in {"0", "_"}
    \/ val1 \in {"0", "_"} /\ val2 = "1"
    \/ val1 = "y" /\ val2 \in {"n", "_"}
    \/ val1 \in {"n", "_"} /\ val2 = "y"

\* the type one turn of the loop over properties_map pushes
FieldType(def) ==
    IF /\ is_array(def.enum)
       /\ Len(def.enum.v) = 2
       /\ IsBooleanPair(IndicatorChar(def.enum.v[1]),
                        IndicatorChar(def.enum.v[2]))
    THEN "Boolean"
    ELSE JsonlTypeFromStr(def.type)

\* faulty variant of EmitBoolean: y is not read as true
EmitBooleanNoY(field) ==
    IF first_lower_char(field) \in {"t", "1"} THEN TrueText ELSE FalseText

\* the JsonlType::Boolean arm
EmitBoolean(field) ==
    IF first_lower_char(field) \in {"t", "y", "1"} THEN TrueText ELSE FalseText

\* the JsonlType::String arm
EmitString(field) ==
    IF field = <<>> THEN NullText
    ELSE <<"\"">> \o escape_default(field) \o <<"\"">>

\* faulty variant of FieldVal: a field without a type is written as a string
FieldValDefaultString(types, idx, field) ==
    IF idx <= Len(types)
    THEN CASE types[idx] \in {"Integer", "Number"} -> field
           [] types[idx] = "Boolean" -> EmitBoolean(field)
           [] types[idx] = "Null" -> NullText
           [] OTHER -> EmitString(field)
    ELSE EmitString(field)

\* field_val for the field at idx (1-based here), before the emptiness test
FieldVal(types, idx, field) ==
    IF idx <= Len(types)
    THEN CASE types[idx] \in {"Integer", "Number"} -> field
           [] types[idx] = "Boolean" -> EmitBoolean(field)
           [] types[idx] = "Null" -> NullText
           [] OTHER -> EmitString(field)
    ELSE NullText

\* faulty variant of Emitted: every value is quoted
EmittedQuoted(types, idx, field) ==
    LET field_val == FieldVal(types, idx, field)
    IN  IF field_val = <<>> THEN NullText ELSE <<"\"">> \o field_val \o <<"\"">>

\* the JSON text written after "key": for the field at idx
Emitted(types, idx, field) ==
    LET field_val == FieldVal(types, idx, field)
    IN  IF field_val = <<>> THEN NullText ELSE field_val

(***************************************************************************)
(* The CSV documents the model feeds to `qsv tojsonl`.                     *)
(***************************************************************************)
ColNames == {"a", "b"}
FieldTexts ==
    {<<>>, <<" ">>, <<" ", "T", " ">>, <<"y">>, <<"1">>, <<"0">>,
     <<"a", "\"", "\\", "\n", "b">>, <<"'">>, <<NonAscii>>}

HeaderRows == {h \in SeqsUpTo(ColNames, MaxCols) : Len(h) > 0}
\* data rows, of any width: the fields are PlainText but for at most one of them
PlainText == <<"1">>
Rows ==
    {r \in SeqsUpTo(FieldTexts, MaxCols) :
        /\ Len(r) > 0
        /\ Cardinality({i \in 1..Len(r) : r[i] # PlainText}) <= 1}

\* the n-th data row: the first row ranges over all of Rows, the rows after it
\* hold "1" and "0" only
RowsAt(n) ==
    IF n = 1 THEN Rows
    ELSE {r \in Rows : \A i \in 1..Len(r) : r[i] \in {PlainText, <<"0">>}}

NoDef == [type |-> "", enum |-> Absent]

\* the keys of properties_map, a Map<String, Value> keyed by column name: each
\* name of the header row once, at the place of its first occurrence
RECURSIVE PropertyKeys(_)
PropertyKeys(hdr) ==
    IF hdr = <<>> THEN <<>>
    ELSE LET front == PropertyKeys(SubSeq(hdr, 1, Len(hdr) - 1))
             name == hdr[Len(hdr)]
         IN  IF name \in Range(front) THEN front ELSE Append(front, name)

\* infer_schema_from_stats: one entry per column name
Infer ==
    /\ UNCHANGED jvars
    /\ tpc = "start"
    /\ n_props' = Len(PropertyKeys(csv_headers))
    /\ tpc' = "table"
    /\ UNCHANGED <<csv_headers, field_def, field_type_vec, records, wtr, terr>>

\* infer_schema_from_stats returns an error
InferFails ==
    /\ UNCHANGED jvars
    /\ tpc = "start"
    /\ tpc' = "failed"
    /\ terr' = "Failed to infer field types via stats and frequency"
    /\ UNCHANGED <<csv_headers, n_props, field_def, field_type_vec, records, wtr>>

\* one turn of the loop over properties_map
BuildFieldType ==
    /\ UNCHANGED jvars
    /\ tpc = "table"
    /\ Len(field_type_vec) < n_props
    /\ \E def \in FieldDefs :
        /\ field_def' = def
        /\ field_type_vec' = Append(field_type_vec, FieldType(def))
    /\ UNCHANGED <<tpc, csv_headers, n_props, records, wtr, terr>>

\* a properties_map entry that is not an object
BuildFieldTypeFails ==
    /\ UNCHANGED jvars
    /\ tpc = "table"
    /\ Len(field_type_vec) < n_props
    /\ tpc' = "failed"
    /\ terr' = "Cannot create field map"
    /\ UNCHANGED <<csv_headers, n_props, field_def, field_type_vec, records, wtr>>

\* the loop over properties_map ends
EndTable ==
    /\ UNCHANGED jvars
    /\ tpc = "table"
    /\ Len(field_type_vec) = n_props
    /\ field_def' = NoDef
    /\ tpc' = "emit"
    /\ UNCHANGED <<csv_headers, n_props, field_type_vec, records, wtr, terr>>

\* the object written for one trimmed record
Line(hdr, types, rec) ==
    [idx \in 1..Len(rec) |-> [key |-> hdr[idx], val |-> Emitted(types, idx, rec[idx])]]

\* Config::reader(): the reader is not flexible (only the writer is configured
\* .flexible(true)); it yields a row as wide as the header row and reports any
\* other as an error
ReaderAccepts(row, hdr) == Len(row) = Len(hdr)

\* one turn of the `while rdr.read_record` loop
EmitRecord ==
    /\ UNCHANGED jvars
    /\ tpc = "emit"
    /\ Len(records) < MaxRows
    /\ \E row \in RowsAt(Len(records) + 1) :
        IF ~ReaderAccepts(row, csv_headers)
        THEN /\ tpc' = "failed"
             /\ terr' = "CSV error: unequal lengths"
             /\ UNCHANGED <<records, wtr>>
        ELSE /\ records' = Append(records, row)
             /\ wtr' = write_record(wtr, Line(csv_headers, field_type_vec,
                                              [i \in 1..Len(row) |-> trim(row[i])]))
             /\ UNCHANGED <<tpc, terr>>
    /\ UNCHANGED <<csv_headers, n_props, field_def, field_type_vec>>

\* read_record returns false; wtr.flush()
EndEmit ==
    /\ UNCHANGED jvars
    /\ tpc = "emit"
    /\ tpc' = "done"
    /\ UNCHANGED <<csv_headers, n_props, field_def, field_type_vec, records, wtr, terr>>

\* `qsv json` is started: invocation 1 on some document and filter
InitJson ==
    /\ \E df \in JsonInputs :
        /\ input = [p \in Procs |-> IF p = 1 THEN df[1] ELSE JNull]
        /\ flag_jaq = [p \in Procs |-> IF p = 1 THEN df[2] ELSE "none"]
    /\ pc = [p \in Procs |-> IF p = 1 THEN "start" ELSE "idle"]
    /\ value = [p \in Procs |-> JNull]
    /\ headers = [p \in Procs |-> <<>>]
    /\ byteheaders = [p \in Procs |-> <<>>]
    /\ sel = [p \in Procs |-> <<>>]
    /\ rdpos = [p \in Procs |-> 0]
    /\ out = [p \in Procs |-> <<>>]
    /\ err = [p \in Procs |-> ""]
    /\ created = [p \in Procs |-> FALSE]
    /\ written = [p \in Procs |-> <<>>]
    /\ readback = [p \in Procs |-> <<>>]
    /\ intermediate_csv = NoFile
    /\ tpc = "idle"
    /\ csv_headers = <<>>
    /\ n_props = 0
    /\ field_def = NoDef
    /\ field_type_vec = <<>>
    /\ records = <<>>
    /\ wtr = <<>>
    /\ terr = ""

\* `qsv tojsonl` is started on a CSV with some header row
InitJsonl ==
    /\ tpc = "start"
    /\ csv_headers \in HeaderRows
    /\ n_props = 0
    /\ field_def = NoDef
    /\ field_type_vec = <<>>
    /\ records = <<>>
    /\ wtr = <<>>
    /\ terr = ""
    /\ pc = [p \in Procs |-> "idle"]
    /\ input = [p \in Procs |-> JNull]
    /\ flag_jaq = [p \in Procs |-> "none"]
    /\ value = [p \in Procs |-> JNull]
    /\ headers = [p \in Procs |-> <<>>]
    /\ byteheaders = [p \in Procs |-> <<>>]
    /\ sel = [p \in Procs |-> <<>>]
    /\ rdpos = [p \in Procs |-> 0]
    /\ out = [p \in Procs |-> <<>>]
    /\ err = [p \in Procs |-> ""]
    /\ created = [p \in Procs |-> FALSE]
    /\ written = [p \in Procs |-> <<>>]
    /\ readback = [p \in Procs |-> <<>>]
    /\ intermediate_csv = NoFile

\* the documents and filters of two invocations running at the same time: a
\* non-empty flat object, an array of two records, a nested document with .data
ConcInputs ==
    {<<d, "none">> : d \in {o \in FlatObjs : Len(o.v) > 0}} \cup
    {<<JArr(<<JObj(<<[k |-> "a", v |-> JStr("x")]>>),
              JObj(<<[k |-> "a", v |-> JNull]>>)>>), "none">>,
     <<JObj(<<[k |-> "data", v |-> JArr(<<JObj(<<[k |-> "b", v |-> JStr("x")]>>)>>)]>>),
       ".data">>}

\* two invocations of `qsv json` are started
InitJsonConc ==
    /\ \E df \in [Procs -> ConcInputs] :
        /\ input = [p \in Procs |-> df[p][1]]
        /\ flag_jaq = [p \in Procs |-> df[p][2]]
    /\ pc = [p \in Procs |-> "start"]
    /\ value = [p \in Procs |-> JNull]
    /\ headers = [p \in Procs |-> <<>>]
    /\ byteheaders = [p \in Procs |-> <<>>]
    /\ sel = [p \in Procs |-> <<>>]
    /\ rdpos = [p \in Procs |-> 0]
    /\ out = [p \in Procs |-> <<>>]
    /\ err = [p \in Procs |-> ""]
    /\ created = [p \in Procs |-> FALSE]
    /\ written = [p \in Procs |-> <<>>]
    /\ readback = [p \in Procs |-> <<>>]
    /\ intermediate_csv = NoFile
    /\ tpc = "idle"
    /\ csv_headers = <<>>
    /\ n_props = 0
    /\ field_def = NoDef
    /\ field_type_vec = <<>>
    /\ records = <<>>
    /\ wtr = <<>>
    /\ terr = ""

\* one command is started: `qsv json` or `qsv tojsonl`
Init == InitJson \/ InitJsonl

JsonNext ==
    \E p \in Procs :
        \/ Load(p)
        \/ Filter(p)
        \/ Validate(p)
        \/ CreateTmp(p)
        \/ CreateTmpFails(p)
        \/ Convert(p)
        \/ OpenReader(p)
        \/ WriteHeader(p)
        \/ CopyRecord(p)
        \/ Finish(p)

JsonlNext ==
    \/ Infer
    \/ InferFails
    \/ BuildFieldType
    \/ BuildFieldTypeFails
    \/ EndTable
    \/ EmitRecord
    \/ EndEmit

Next == JsonNext \/ JsonlNext

vars == <<jvars, tvars>>

\* either command
Spec == Init /\ [][Next]_vars

\* `qsv json` alone
SpecJson == InitJson /\ [][JsonNext]_vars

\* `qsv tojsonl` alone
SpecJsonl == InitJsonl /\ [][JsonlNext]_vars

\* two invocations of `qsv json` at the same time, their steps interleaved
SpecJsonConc == InitJsonConc /\ [][JsonNext]_vars

(***************************************************************************)
(* Properties of `qsv json` (checked under SpecJson).                      *)
(***************************************************************************)
Ended(p) == pc[p] \in {"done", "failed", "panicked"}

\* a non-empty flat object, or a non-empty array of non-empty flat objects
\* that share one key set
AcceptedShape(v) ==
    \/ is_object(v) /\ Len(v.v) > 0
    \/ /\ is_array(v)
       /\ Len(v.v) > 0
       /\ \A i \in 1..Len(v.v) :
            /\ is_object(v.v[i])
            /\ Len(v.v[i].v) > 0
            /\ Range(keys(v.v[i])) = Range(keys(v.v[1]))

\* the CSV of a record set: the first record's keys, then one row per record
\* holding the record's values under those keys
ExpectedCsv(recs) ==
    <<keys(recs[1])>> \o
    [r \in 1..Len(recs) |->
        [i \in 1..Len(recs[1].v) |-> CellOf(recs[r], keys(recs[1])[i])]]

\* C1: when a run on an accepted value has ended successfully, the header row of
\* the final CSV is the first record's keys in their original order, whatever
\* order the intermediate CSV had, and every data row holds the record's values
\* under those same columns.
C1_HeaderOrder ==
    \A p \in Procs :
        pc[p] = "done" /\ AcceptedShape(value[p]) =>
            LET recs == Values(value[p]) IN
            /\ Len(out[p]) = Len(recs) + 1
            /\ out[p][1] = keys(recs[1])
            /\ \A r \in 1..Len(recs) : \A i \in 1..Len(recs[1].v) :
                    out[p][r + 1][i] = CellOf(recs[r], keys(recs[1])[i])

\* a finished run whose intermediate CSV had its columns in another order than
\* the first record and whose rows hold two different cells
C1_Witness ==
    /\ pc[1] = "done"
    /\ AcceptedShape(value[1])
    /\ byteheaders[1] # headers[1]
    /\ Len(out[1]) >= 3
    /\ \E r \in 2..Len(out[1]) : out[1][r][1] # out[1][r][2]

\* C6 as stated: a top-level null or empty array (no filter given) ends the run
\* with the error "No JSON data found.", the intermediate file not created and
\* no output written.
C6_NoDataOriginal ==
    \A p \in Procs :
        /\ Ended(p)
        /\ flag_jaq[p] = "none"
        /\ is_null(input[p]) \/ input[p] = JArr(<<>>)
        => /\ pc[p] = "failed"
           /\ err[p] = "No JSON data found."
           /\ ~created[p]
           /\ out[p] = <<>>

\* C6 amended: a top-level null ends the run with "No JSON data found."; an
\* empty array given without a filter ends it with the shape error "Expected an
\* array of objects in JSON"; in both cases the intermediate file has not been
\* created and no output has been written.
C6_NoDataAmended ==
    \A p \in Procs :
        /\ pc[p] \notin {"idle", "start"} /\ is_null(input[p]) =>
                /\ pc[p] = "failed"
                /\ err[p] = "No JSON data found."
                /\ ~created[p]
                /\ out[p] = <<>>
        /\ pc[p] \notin {"idle", "start", "shape"} /\ flag_jaq[p] = "none"
            /\ input[p] = JArr(<<>>) =>
                /\ pc[p] = "failed"
                /\ err[p] = "Expected an array of objects in JSON"
                /\ ~created[p]
                /\ out[p] = <<>>

\* a run on the empty array has failed
C6_Witness ==
    /\ pc[1] = "failed"
    /\ flag_jaq[1] = "none"
    /\ input[1] = JArr(<<>>)
    /\ intermediate_csv = NoFile

\* the filter does not parse, or one of its outputs on the document is an error
FilterErrs(p) ==
    /\ flag_jaq[p] # "none"
    /\ \/ ~JaqParses(flag_jaq[p])
       \/ \E i \in 1..Len(JaqRun(flag_jaq[p], input[p])) :
            ~JaqRun(flag_jaq[p], input[p])[i].ok

\* C7: a run whose filter failed to parse, or yielded an erroring output, ends
\* with a reported filter error: it never ends successfully, having dropped the
\* error and written CSV from the remaining outputs.
C7_FilterErrorsReported ==
    \A p \in Procs : FilterErrs(p) /\ Ended(p) /\ ~is_null(input[p]) /\ input[p] # Malformed
        => pc[p] = "failed" /\ out[p] = <<>>

\* an object holding an array of flat objects under "data"
HoldsRecords(v) ==
    /\ is_object(v)
    /\ keys(v) = <<"data">>
    /\ is_array(get(v, "data"))
    /\ \A i \in 1..Len(get(v, "data").v) : is_object(get(v, "data").v[i])

\* C8: on an object holding an array A of flat objects under "data", the filter
\* .data (the array as a whole) and the filter .data[] (its elements one by
\* one) both leave A as the value to convert, and a run that ends successfully
\* has written the CSV of A.
C8_WholeOrEach ==
    \A p \in Procs :
        /\ pc[p] \notin {"idle", "start", "filter"}
        /\ flag_jaq[p] \in {".data", ".data[]"}
        /\ HoldsRecords(input[p])
        => /\ value[p] = get(input[p], "data")
           /\ pc[p] = "done" => out[p] = ExpectedCsv(get(input[p], "data").v)

\* a finished run with the filter .data on two records
C8_Witness ==
    /\ pc[1] = "done"
    /\ flag_jaq[1] = ".data"
    /\ HoldsRecords(input[1])
    /\ Len(out[1]) = 3

\* C10: after a run that created the intermediate file has ended, the file no
\* longer exists.
C10_Discarded ==
    \A p \in Procs : Ended(p) /\ created[p] => ~intermediate_csv.exists

\* the reader of p has opened the intermediate CSV
Reading(p) == pc[p] \in {"header", "copy", "done"}

\* C11: in every interleaving of two invocations, the rows an invocation's read
\* phase has read are the first rows its own write phase wrote, and all of them
\* once the run is done.
C11_OwnRows ==
    \A p \in Procs :
        /\ Reading(p) =>
                /\ Len(readback[p]) <= Len(written[p])
                /\ readback[p] = SubSeq(written[p], 1, Len(readback[p]))
        /\ pc[p] = "done" => readback[p] = written[p]

(***************************************************************************)
(* Properties of `qsv tojsonl` (checked under SpecJsonl).                  *)
(***************************************************************************)
\* the indicator character of a domain value, in the words of the usage text:
\* '_' for null, '1' / '0' for the integers 1 / 0, for a string its first
\* character after leading whitespace, lowercased ('_' when there is none),
\* '*' for anything else
Indicator(v) ==
    CASE v = JNull -> "_"
      [] v = JNum(1) -> "1"
      [] v = JNum(0) -> "0"
      [] v.t = "str" ->
            IF \A i \in 1..Len(v.s) : v.s[i] = " " THEN "_"
            ELSE LET i == CHOOSE j \in 1..Len(v.s) :
                            v.s[j] # " " /\ \A k \in 1..(j - 1) : v.s[k] = " "
                 IN  IF v.s[i] \in Range(Upper) THEN Lower[IndexOf(Upper, v.s[i])]
                     ELSE v.s[i]
      [] OTHER -> "*"

\* the unordered pairs the claim lists
ClaimedPairs ==
    {{"t", "f"}, {"t", "_"}, {"f", "_"}, {"1", "0"}, {"1", "_"}, {"0", "_"},
     {"y", "n"}, {"y", "_"}, {"n", "_"}}

\* the unordered pairs of the usage text: t/f, t/null, 1/0, 1/null, y/n, y/null
UsagePairs ==
    {{"t", "f"}, {"t", "_"}, {"1", "0"}, {"1", "_"}, {"y", "n"}, {"y", "_"}}

\* the type the claim gives a column, for a table of Boolean pairs
TypeByPairs(def, pairs) ==
    IF /\ def.enum # Absent
       /\ Len(def.enum.v) = 2
       /\ {Indicator(def.enum.v[1]), Indicator(def.enum.v[2])} \in pairs
    THEN "Boolean"
    ELSE JsonlTypeFromStr(def.type)

\* C2 as stated: the type pushed for a column is Boolean exactly when its
\* domain has two values whose indicator characters form one of the nine listed
\* pairs; otherwise it is the profiler's type.
C2_BooleanPairsOriginal ==
    field_def # NoDef =>
        field_type_vec[Len(field_type_vec)] = TypeByPairs(field_def, ClaimedPairs)

\* C2 amended: the same with the six pairs (t,f), (t,_), (1,0), (1,_), (y,n),
\* (y,_): a falsy value paired with null does not make a Boolean column.
C2_BooleanPairs ==
    field_def # NoDef =>
        field_type_vec[Len(field_type_vec)] = TypeByPairs(field_def, UsagePairs)

\* a string column with the domain (null, "T") has been typed Boolean
C2_Witness ==
    /\ field_def = [type |-> "string", enum |-> JArr(<<JNull, JStr(<<"T">>)>>)]
    /\ field_type_vec # <<>>
    /\ field_type_vec[Len(field_type_vec)] = "Boolean"

\* the fields of the lines written: line r, field idx
Written == {<<r, idx>> \in (1..Len(wtr)) \X (1..MaxCols + 1) : idx <= Len(wtr[r])}

\* a field text without its leading and trailing blanks
Stripped(s) ==
    IF \A i \in 1..Len(s) : is_whitespace(s[i]) THEN <<>>
    ELSE LET lo == CHOOSE i \in 1..Len(s) :
                      ~is_whitespace(s[i]) /\ \A k \in 1..(i - 1) : is_whitespace(s[k])
             hi == CHOOSE i \in 1..Len(s) :
                      ~is_whitespace(s[i]) /\ \A k \in (i + 1)..Len(s) : is_whitespace(s[k])
         IN  SubSeq(s, lo, hi)

\* C3 as stated: every field of an Integer or Number column is written as its
\* trimmed text, whatever the text.
C3_NumericVerbatimOriginal ==
    \A w \in Written :
        w[2] <= Len(field_type_vec) /\ field_type_vec[w[2]] \in {"Integer", "Number"}
        => wtr[w[1]][w[2]].val = Stripped(records[w[1]][w[2]])

\* C3 amended: every field of an Integer or Number column is written as its
\* trimmed text when that text is not empty, and as null when it is empty.
C3_NumericVerbatim ==
    \A w \in Written :
        w[2] <= Len(field_type_vec) /\ field_type_vec[w[2]] \in {"Integer", "Number"}
        => wtr[w[1]][w[2]].val =
              IF Stripped(records[w[1]][w[2]]) = <<>> THEN NullText
              ELSE Stripped(records[w[1]][w[2]])

\* a field that is no number, with blanks around it, written as it is in an
\* Integer or Number column
C3_Witness ==
    \E w \in Written :
        /\ w[2] <= Len(field_type_vec)
        /\ field_type_vec[w[2]] \in {"Integer", "Number"}
        /\ records[w[1]][w[2]] = <<" ", "T", " ">>
        /\ wtr[w[1]][w[2]].val = <<"T">>

HexDigits ==
    {"0", "1", "2", "3", "4", "5", "6", "7", "8", "9",
     "a", "b", "c", "d", "e", "f", "A", "B", "C", "D", "E", "F"}

Invalid == [ok |-> FALSE, s |-> <<>>]

\* the text a JSON string body (RFC 8259, between the quotes) stands for
RECURSIVE JsonBody(_)
JsonBody(b) ==
    IF b = <<>> THEN [ok |-> TRUE, s |-> <<>>]
    ELSE IF b[1] \in {"\"", "\n", "\r", "\t"} THEN Invalid
    ELSE IF b[1] # "\\"
    THEN LET rest == JsonBody(Tail(b))
         IN  IF rest.ok THEN [ok |-> TRUE, s |-> <<b[1]>> \o rest.s] ELSE Invalid
    ELSE IF Len(b) < 2 THEN Invalid
    ELSE IF b[2] \in {"\"", "\\", "/", "n", "r", "t"}
    THEN LET rest == JsonBody(SubSeq(b, 3, Len(b)))
             c == CASE b[2] = "n" -> "\n" [] b[2] = "r" -> "\r" [] b[2] = "t" -> "\t"
                    [] OTHER -> b[2]
         IN  IF rest.ok THEN [ok |-> TRUE, s |-> <<c>> \o rest.s] ELSE Invalid
    ELSE IF b[2] = "u" /\ Len(b) >= 6 /\ \A i \in 3..6 : b[i] \in HexDigits
    THEN LET rest == JsonBody(SubSeq(b, 7, Len(b)))
             c == IF SubSeq(b, 3, 6) = <<"0", "0", "e", "9">> THEN NonAscii ELSE "U+"
         IN  IF rest.ok THEN [ok |-> TRUE, s |-> <<c>> \o rest.s] ELSE Invalid
    ELSE Invalid

\* the text a JSON string literal stands for
JsonString(text) ==
    IF Len(text) >= 2 /\ text[1] = "\"" /\ text[Len(text)] = "\""
    THEN JsonBody(SubSeq(text, 2, Len(text) - 1))
    ELSE Invalid

\* C4: every field of a String column is written as null when its trimmed text
\* is empty, and otherwise as a JSON string literal that stands for the trimmed
\* text.
C4_StringIsJson ==
    \A w \in Written :
        w[2] <= Len(field_type_vec) /\ field_type_vec[w[2]] = "String"
        => LET field == Stripped(records[w[1]][w[2]])
               val == wtr[w[1]][w[2]].val
           IN  IF field = <<>> THEN val = NullText
               ELSE JsonString(val).ok /\ JsonString(val).s = field

\* C5 as stated: no run fails on a row, whatever its width, and every field
\* without an entry in the type table is written as null under its key.
C5_MissingTypeOriginal ==
    /\ terr # "CSV error: unequal lengths"
    /\ \A w \in Written :
        w[2] > Len(field_type_vec)
        => wtr[w[1]][w[2]] = [key |-> csv_headers[w[2]], val |-> NullText]

\* C5 amended: for every row as wide as the header row, a field without an
\* entry in the type table is written as null under its key and the run does
\* not fail on the row; a row of another width ends the run with the reader's
\* error.
C5_MissingType ==
    /\ terr = "CSV error: unequal lengths" => tpc = "failed"
    /\ \A r \in 1..Len(records) :
        /\ Len(records[r]) = Len(csv_headers)
        /\ r <= Len(wtr)
        /\ Len(wtr[r]) = Len(records[r])
    /\ \A w \in Written :
        w[2] > Len(field_type_vec)
        => wtr[w[1]][w[2]] = [key |-> csv_headers[w[2]], val |-> NullText]

\* a line whose last field, not empty, has no entry in the type table
C5_Witness ==
    \E w \in Written :
        /\ w[2] > Len(field_type_vec)
        /\ records[w[1]][w[2]] = <<"y">>
        /\ wtr[w[1]][w[2]].val = NullText
        /\ tpc = "done"

\* the field reads as true: its first character after leading whitespace is
\* one of t, y, 1 in either case
ReadsTrue(s) ==
    \E i \in 1..Len(s) :
        /\ s[i] \in {"t", "T", "y", "Y", "1"}
        /\ \A k \in 1..(i - 1) : is_whitespace(s[k])

\* C9: every field of a Boolean column is written as true when it reads as
\* true and as false otherwise; an empty field is written as false.
C9_BooleanEmission ==
    \A w \in Written :
        w[2] <= Len(field_type_vec) /\ field_type_vec[w[2]] = "Boolean"
        => wtr[w[1]][w[2]].val =
              IF ReadsTrue(records[w[1]][w[2]]) THEN TrueText ELSE FalseText

\* a line with two Boolean fields, "1" written as true and the empty field as
\* false
C9_Witness ==
    \E r \in 1..Len(wtr) :
        /\ field_type_vec = <<"Boolean", "Boolean">>
        /\ records[r] = <<<<"1">>, <<>>>>
        /\ wtr[r][1].val = TrueText
        /\ wtr[r][2].val = FalseText
(***************************************************************************)
(* Row order and count of both commands (checked under Spec).              *)
(***************************************************************************)
\* the JSONL line of the data row rec: one member per field, in column order
LineOf(rec) ==
    [idx \in 1..Len(rec) |->
        [key |-> csv_headers[idx],
         val |-> Emitted(field_type_vec, idx, trim(rec[idx]))]]

\* the CSV data row of the record rec under the first record's keys
RowOf(p, rec) == [i \in 1..Len(headers[p]) |-> CellOf(rec, headers[p][i])]

\* C12: the emission pass keeps row order and count in both directions. The
\* JSONL written so far holds one line per data row read so far, line r made
\* from row r with its fields in column order; the CSV written so far holds the
\* header row and then, for r = 1, 2, ..., the row of record r, and holds a row
\* for every record once the run is done.
C12_RowOrder ==
    /\ Len(wtr) = Len(records)
    /\ \A r \in 1..Len(wtr) : wtr[r] = LineOf(records[r])
    /\ \A p \in Procs :
        LET recs == Values(value[p]) IN
        /\ Len(out[p]) <= Len(recs) + 1
        /\ Len(out[p]) > 0 => out[p][1] = headers[p]
        /\ \A r \in 2..Len(out[p]) : out[p][r] = RowOf(p, recs[r - 1])
        /\ pc[p] = "done" => Len(out[p]) = Len(recs) + 1

\* a finished `qsv tojsonl` run on two columns and two data rows whose lines
\* differ, each line with two members
C12_Witness ==
    /\ tpc = "done"
    /\ Len(csv_headers) = 2
    /\ csv_headers[1] # csv_headers[2]
    /\ Len(wtr) = 2
    /\ wtr[1] # wtr[2]
    /\ records[1] # records[2]
    /\ wtr[1][1].val # wtr[1][2].val

(***************************************************************************)
(* The type table of `qsv tojsonl` (checked under SpecJsonl).              *)
(***************************************************************************)
\* C13: once the type table is built it has one entry per header column, and
\* entry i was made from the properties_map entry of the column at position i,
\* for every header row, also one which holds a column name twice.
C13_TypePerColumn ==
    tpc \in {"emit", "done"} =>
        /\ Len(field_type_vec) = Len(csv_headers)
        /\ \A i \in 1..Len(field_type_vec) :
                PropertyKeys(csv_headers)[i] = csv_headers[i]

====
